---- MODULE Spec2Model ----
(***************************************************************************)
(* Model of yaat/routing.py: the Route entity, the Router registration    *)
(* operations (add_route, add_websocket_route, mount), the flattened path *)
(* list (paths / _get_paths), the resolution walk (get_route) and the     *)
(* path helpers (_clean_path, _path_to_directories, _directories_to_path).*)
(*                                                                         *)
(* A path is a sequence of one-character strings.  The token "P" stands   *)
(* for a named placeholder "{id}" of a path template.  Python's None is   *)
(* the value None below, which is no path.                                 *)
(***************************************************************************)
EXTENDS Integers, Sequences, FiniteSets, TLC

VARIABLES routes, nops, last, rt, rt_last, np_in, np_clean, np_dirs, np_out, np_pc

vars == <<routes, nops, last, rt, rt_last, np_in, np_clean, np_dirs, np_out, np_pc>>

\* ------------------------------------------------------------------ bounds
\* number of successful registration calls explored
MaxOps == 3
\* longest path string given to the path helpers
MaxLen == 3

\* ------------------------------------------------------------- path helpers
None == <<"None">>

Slash == <<"/">>

StartsWithSlash(p) == Len(p) > 0 /\ p[1] = "/"

EndsWithSlash(p) == Len(p) > 0 /\ p[Len(p)] = "/"

\* a plausible slip: the trailing slash is never stripped
clean_path_keeps_trailing(path) ==
    IF path = Slash THEN path
    ELSE IF StartsWithSlash(path) THEN path ELSE Slash \o path

\* Router._clean_path
clean_path(path) ==
    IF path = Slash THEN path
    ELSE LET p1 == IF StartsWithSlash(path) THEN path ELSE Slash \o path
             p2 == IF EndsWithSlash(p1) THEN SubSeq(p1, 1, Len(p1) - 1) ELSE p1
         IN  p2

\* str.split("/"): the pieces between slashes, empty pieces included
RECURSIVE SplitSlash(_, _, _)
SplitSlash(p, cur, acc) ==
    IF p = <<>> THEN Append(acc, cur)
    ELSE IF Head(p) = "/" THEN SplitSlash(Tail(p), <<>>, Append(acc, cur))
    ELSE SplitSlash(Tail(p), Append(cur, Head(p)), acc)

\* Router._path_to_directories
path_to_directories(path) ==
    IF path = Slash THEN <<Slash>>
    ELSE LET pieces == SplitSlash(path, <<>>, <<>>)
             keep   == SelectSeq(pieces, LAMBDA x : x # <<>>)
         IN  [i \in 1..Len(keep) |-> Slash \o keep[i]]

\* "".join(directories)
RECURSIVE Join(_)
Join(ds) == IF ds = <<>> THEN <<>> ELSE Head(ds) \o Join(Tail(ds))

\* Router._directories_to_path
directories_to_path(directories) ==
    LET url == Join(directories)
    IN  IF ~StartsWithSlash(url) THEN Slash \o url ELSE url

\* parse(template, string) of the parse library: literal characters match
\* themselves, a placeholder matches one or more characters (a slash too),
\* as few as let the rest match; the whole string must be consumed.
\* The result is the captured values in order, or no match.
RECURSIVE parse(_, _)
parse(t, s) ==
    IF t = <<>> THEN [ok |-> s = <<>>, named |-> <<>>]
    ELSE IF Head(t) = "P"
    THEN LET ks == {k \in 1..Len(s) : parse(Tail(t), SubSeq(s, k + 1, Len(s))).ok}
         IN  IF ks = {} THEN [ok |-> FALSE, named |-> <<>>]
             ELSE LET k == CHOOSE k \in ks : \A j \in ks : k <= j
                  IN  [ok |-> TRUE,
                       named |-> <<SubSeq(s, 1, k)>>
                                 \o parse(Tail(t), SubSeq(s, k + 1, Len(s))).named]
    ELSE IF s # <<>> /\ Head(s) = Head(t)
    THEN parse(Tail(t), Tail(s))
    ELSE [ok |-> FALSE, named |-> <<>>]

\* ------------------------------------------------------------------- Route
\* RouteTypes
HTTP == "HTTP"
STATIC == "STATIC"
WEBSOCKET == "WEBSOCKET"

RouteTypes == {HTTP, STATIC, WEBSOCKET}

\* yaat.constants.HTTP_METHODS, the default full HTTP method set
HTTP_METHODS == <<"GET", "HEAD", "POST", "PUT", "DELETE", "CONNECT", "OPTIONS", "TRACE", "PATCH">>

\* str.upper on the method tokens used here
upper(m) ==
    CASE m \in {"get", "Get", "GET"} -> "GET"
      [] m \in {"post", "Post", "POST"} -> "POST"
      [] OTHER -> m

\* the methods setter of Route
methods_setter(methods) == [i \in 1..Len(methods) |-> upper(methods[i])]

\* Python truthiness of an optional list
Falsy(x) == x = None \/ x = <<>>

\* Route.__init__; uid is the identity of the new object
Route(uid, route_type, path, handler, methods) ==
    [uid |-> uid, route_type |-> route_type, path |-> path, handler |-> handler,
     methods |-> methods_setter(IF Falsy(methods) THEN HTTP_METHODS ELSE methods)]

\* Route.is_valid_method
is_valid_method(route, method) ==
    \E i \in 1..Len(route.methods) : route.methods[i] = upper(method)

NoRoute == [uid |-> 0, route_type |-> "NONE", path |-> <<>>, handler |-> "none", methods |-> <<>>]

\* ------------------------------------------------------------------ Router
\* the routers of the application; Root is the one requests are resolved on
Root == "R"

RouterIds == {"R", "S", "E"}

NoRouter == "none"

\* a value of Router.routes: a Route, or a mounted Router
RouteEntry(key, route) == [key |-> key, isRoute |-> TRUE, route |-> route, router |-> NoRouter]

RouterEntry(key, router) == [key |-> key, isRoute |-> FALSE, route |-> NoRoute, router |-> router]

Keys(tbl) == {tbl[i].key : i \in 1..Len(tbl)}

\* OrderedDict.__setitem__: a present key keeps its place and gets the new value
DictSet(tbl, entry) ==
    IF entry.key \in Keys(tbl)
    THEN [i \in 1..Len(tbl) |-> IF tbl[i].key = entry.key THEN entry ELSE tbl[i]]
    ELSE Append(tbl, entry)

\* the interpreter's recursion limit, scaled to the model: a chain of calls
\* longer than this revisits a call it is still inside, so it never ends
PathsDepth == Cardinality(RouterIds) + 1

\* Router._get_paths on router self: the loop over routes from entry i on,
\* appending to the accumulator self.__paths
RECURSIVE get_paths_loop(_, _, _, _, _, _, _)
RECURSIVE get_paths(_, _, _, _, _, _)
get_paths_loop(rts, self, tbl, i, prev_path, acc, fuel) ==
    IF i > Len(tbl) THEN [err |-> FALSE, paths |-> acc]
    ELSE LET e == tbl[i] IN
         IF e.isRoute
         THEN LET fullpath == IF prev_path # None /\ prev_path # <<>>
                              THEN prev_path \o e.route.path ELSE e.route.path
              IN  get_paths_loop(rts, self, tbl, i + 1, prev_path, Append(acc, fullpath), fuel)
         ELSE LET sub == get_paths(rts, self, rts[e.router], e.key, acc, fuel - 1)
              IN  IF sub.err THEN sub
                  ELSE get_paths_loop(rts, self, tbl, i + 1, prev_path, sub.paths, fuel)

get_paths(rts, self, rs, prev_path, acc, fuel) ==
    IF fuel < 0 THEN [err |-> TRUE, paths |-> acc]
    ELSE LET tbl == IF rs = <<>> THEN rts[self] ELSE rs
         IN  get_paths_loop(rts, self, tbl, 1, prev_path, acc, fuel)

\* Router.paths: the accumulator self.__paths is emptied before every walk
\* and read by nobody else, so it is the acc of the walk and no variable
paths(rts, self) == get_paths(rts, self, <<>>, None, <<>>, PathsDepth)

InSeq(x, s) == \E i \in 1..Len(s) : s[i] = x

Truthy(p) == p # None /\ p # <<>>

NoKwargs == [kind |-> "None", named |-> <<>>, router_path |-> None]

NoMatch == [st |-> "none", route |-> NoRoute, kwargs |-> NoKwargs]

Raised(exc) == [st |-> exc, route |-> NoRoute, kwargs |-> NoKwargs]

\* a chain of get_route calls longer than this revisits a call it is still
\* inside (each call drops one directory until the request is "/", and from
\* then on prev_path is "/"), so it ends in the interpreter's RecursionError
ResolveDepth(request_path) == Len(request_path) + Cardinality(RouterIds) + 2

\* request path for the next router: all sub directories below the current one
next_request(directories) == directories_to_path(Tail(directories))

\* Router.get_route on router self: the loop over routes from entry i on;
\* prev_path is the local the loop rewrites on each descent
RECURSIVE get_route_loop(_, _, _, _, _, _, _)
RECURSIVE get_route(_, _, _, _, _, _)
get_route_loop(rts, self, request_path, prev_path, tbl, i, fuel) ==
    IF i > Len(tbl) THEN NoMatch
    ELSE LET e == tbl[i] IN
         IF e.isRoute
         THEN IF e.route.route_type = STATIC
              THEN [st |-> "route", route |-> e.route,
                    kwargs |-> [kind |-> "router_path", named |-> <<>>, router_path |-> prev_path]]
              ELSE LET parse_result == parse(e.route.path, request_path)
                   IN  IF parse_result.ok
                       THEN [st |-> "route", route |-> e.route,
                             kwargs |-> [kind |-> "named", named |-> parse_result.named,
                                         router_path |-> None]]
                       ELSE get_route_loop(rts, self, request_path, prev_path, tbl, i + 1, fuel)
         ELSE LET directories == path_to_directories(request_path) IN
              IF directories = <<>> THEN Raised("IndexError")
              ELSE LET first_directory == directories[1] IN
                   IF Len(directories) # 1 /\ first_directory # e.key
                   THEN get_route_loop(rts, self, request_path, prev_path, tbl, i + 1, fuel)
                   ELSE LET new_prev == IF Truthy(prev_path) /\ first_directory # Slash
                                        THEN prev_path \o first_directory
                                        ELSE IF ~Truthy(prev_path) /\ Len(directories) = 1
                                        THEN Slash
                                        ELSE first_directory
                            sub == get_route(rts, self, next_request(directories), new_prev,
                                             rts[e.router], fuel - 1)
                        IN  IF sub.st = "none"
                            THEN get_route_loop(rts, self, request_path, new_prev, tbl, i + 1, fuel)
                            ELSE sub

get_route(rts, self, request_path, prev_path, rs, fuel) ==
    IF fuel < 0 THEN Raised("RecursionError")
    ELSE LET tbl == IF rs = <<>> THEN rts[self] ELSE rs
         IN  get_route_loop(rts, self, request_path, prev_path, tbl, 1, fuel)

\* ------------------------------------------------------------------ inputs
\* paths given to the registration calls, in several spellings
PathInputs ==
    { <<"/">>, <<"/", "a">>, <<"a">>, <<"/", "b">>, <<"/", "a", "/", "b">>, <<"/", "P">> }

\* prefixes given to mount, in two spellings
PrefixInputs == { <<"/", "a">>, <<"a">>, <<"/", "b">> }

\* request paths given to get_route
RequestInputs ==
    { <<"/">>, <<"/", "a">>, <<"/", "b">>, <<"/", "a", "/">>, <<"/", "a", "/", "b">>,
      <<"/", "/">> }

\* the routers the application registers on; router E is only ever mounted,
\* as it was constructed
Registrars == {"R", "S"}

\* the method list the application registers its routes with
RegisteredMethods == { None }

\* method lists given to Route; None is an absent list
MethodInputs == { None, <<>>, <<"get">>, <<"GET", "Post">> }

Handlers == {"h"}

\* the record of the latest call and of what it returned or raised
Call(op, self, path, router, res) ==
    [op |-> op, self |-> self, path |-> path, router |-> router,
     outcome |-> res.st, route |-> res.route, kwargs |-> res.kwargs]

Ok == [st |-> "ok", route |-> NoRoute, kwargs |-> NoKwargs]

NoCall == Call("none", NoRouter, None, NoRouter, NoMatch)

\* the routers below r (r included), for a tree of mounts
RECURSIVE Below(_, _, _)
Below(rts, r, n) ==
    IF n = 0 THEN {r}
    ELSE {r} \cup UNION { Below(rts, rts[r][i].router, n - 1) :
                          i \in {j \in 1..Len(rts[r]) : ~rts[r][j].isRoute} }

Subtree(rts, r) == Below(rts, r, Cardinality(RouterIds))

Mounted(rts, r) ==
    \E q \in RouterIds : \E i \in 1..Len(rts[q]) : ~rts[q][i].isRoute /\ rts[q][i].router = r

\* ----------------------------------------------------------------- actions
TreeIdle == rt = NoRoute /\ rt_last = "none"

PathIdle == np_in = <<>> /\ np_clean = <<>> /\ np_dirs = <<>> /\ np_out = <<>> /\ np_pc = "idle"

\* routes[r] is the OrderedDict of router r, in insertion order; nops counts
\* the registrations that succeeded and numbers the Route objects; last is
\* the latest call with what it returned or raised.
\* Init: every Router() constructed, nothing registered
Init ==
    /\ routes = [r \in RouterIds |-> <<>>]
    /\ nops = 0
    /\ last = NoCall
    /\ TreeIdle
    /\ PathIdle

\* the body shared by add_route and add_websocket_route: the duplicate
\* check against paths, then the new Route stored under the cleaned path;
\* gives the tables, the count of registrations and the outcome of the call
register(rts, n, op, self, path, route_type, handler, methods) ==
    LET ps == paths(rts, self) IN
    IF ps.err
    THEN [routes |-> rts, nops |-> n,
          last |-> Call(op, self, path, NoRouter, Raised("RecursionError"))]
    ELSE IF InSeq(path, ps.paths)
    THEN [routes |-> rts, nops |-> n,
          last |-> Call(op, self, path, NoRouter, Raised("AssertionError"))]
    ELSE LET cleaned == clean_path(path)
             new == Route(n + 1, route_type, cleaned, handler, methods)
         IN  [routes |-> [rts EXCEPT ![self] = DictSet(@, RouteEntry(cleaned, new))],
              nops |-> n + 1,
              last |-> Call(op, self, path, NoRouter, Ok)]

\* Router.add_route (and the route decorator, which only calls it)
add_route ==
    \E self \in Registrars, path \in PathInputs, handler \in Handlers,
       methods \in RegisteredMethods, is_static \in BOOLEAN :
        /\ nops < MaxOps
        /\ LET done == register(routes, nops, "add_route", self, path,
                                IF is_static THEN STATIC ELSE HTTP, handler, methods)
           IN  routes' = done.routes /\ nops' = done.nops /\ last' = done.last
        /\ UNCHANGED <<rt, rt_last, np_in, np_clean, np_dirs, np_out, np_pc>>

\* Router.add_websocket_route
add_websocket_route ==
    \E self \in Registrars, path \in PathInputs, handler \in Handlers :
        /\ nops < MaxOps
        /\ LET done == register(routes, nops, "add_websocket_route", self, path,
                                WEBSOCKET, handler, None)
           IN  routes' = done.routes /\ nops' = done.nops /\ last' = done.last
        /\ UNCHANGED <<rt, rt_last, np_in, np_clean, np_dirs, np_out, np_pc>>

\* Router.mount; a router is mounted at one place only and never below
\* itself (the mounts form a tree), and the root is mounted nowhere
mount ==
    \E self \in Registrars, router \in RouterIds \ {Root}, prefix \in PrefixInputs :
        /\ nops < MaxOps
        /\ ~Mounted(routes, router)
        /\ self \notin Subtree(routes, router)
        /\ IF prefix \in Keys(routes[self])
           THEN /\ last' = Call("mount", self, prefix, router, Raised("AssertionError"))
                /\ UNCHANGED <<routes, nops>>
           ELSE /\ routes' = [routes EXCEPT
                                ![self] = DictSet(@, RouterEntry(clean_path(prefix), router))]
                /\ last' = Call("mount", self, prefix, router, Ok)
                /\ nops' = nops + 1
        /\ UNCHANGED <<rt, rt_last, np_in, np_clean, np_dirs, np_out, np_pc>>

\* a request resolved on the root router
resolve ==
    \E request_path \in RequestInputs :
        /\ last' = Call("get_route", Root, request_path, NoRouter,
                        get_route(routes, Root, request_path, None, <<>>,
                                  ResolveDepth(request_path)))
        /\ UNCHANGED <<routes, nops, rt, rt_last, np_in, np_clean, np_dirs, np_out, np_pc>>

\* a read of the paths property
read_paths ==
    \E self \in RouterIds :
        /\ last' = Call("paths", self, None, NoRouter,
                        IF paths(routes, self).err THEN Raised("RecursionError") ELSE Ok)
        /\ UNCHANGED <<routes, nops, rt, rt_last, np_in, np_clean, np_dirs, np_out, np_pc>>

Next == add_route \/ add_websocket_route \/ mount \/ resolve \/ read_paths

Spec == Init /\ [][Next]_vars

\* ---------------------------------------------------- the Route entity alone
InitRoute ==
    /\ routes = [r \in RouterIds |-> <<>>]
    /\ nops = 0
    /\ last = NoCall
    /\ PathIdle
    /\ rt_last = "constructed"
    /\ \E route_type \in RouteTypes, path \in PathInputs, handler \in Handlers,
          methods \in MethodInputs :
           rt = Route(1, route_type, clean_path(path), handler, methods)

\* route.methods = methods; iterating None raises and assigns nothing
set_methods ==
    \E methods \in MethodInputs :
        /\ IF methods = None
           THEN rt' = rt /\ rt_last' = "TypeError"
           ELSE rt' = [rt EXCEPT !.methods = methods_setter(methods)] /\ rt_last' = "assigned"
        /\ UNCHANGED <<routes, nops, last, np_in, np_clean, np_dirs, np_out, np_pc>>

\* route.is_valid_method(method)
check_method ==
    \E method \in {"get", "Post", "PUT"} :
        /\ rt_last' = IF is_valid_method(rt, method) THEN "valid" ELSE "invalid"
        /\ UNCHANGED <<routes, nops, last, rt, np_in, np_clean, np_dirs, np_out, np_pc>>

NextRoute == set_methods \/ check_method

SpecRoute == InitRoute /\ [][NextRoute]_vars

\* ------------------------------------------------- the path helpers alone
PathChars == {"/", "a", "b"}

RECURSIVE PathsOfLen(_)
PathsOfLen(n) ==
    IF n = 0 THEN {<<>>}
    ELSE {Append(p, c) : p \in PathsOfLen(n - 1), c \in PathChars}

AllPaths == UNION {PathsOfLen(n) : n \in 0..MaxLen}

InitPath ==
    /\ routes = [r \in RouterIds |-> <<>>]
    /\ nops = 0
    /\ last = NoCall
    /\ TreeIdle
    /\ np_in \in AllPaths
    /\ np_clean = <<>> /\ np_dirs = <<>> /\ np_out = <<>>
    /\ np_pc = "input"

do_clean ==
    /\ np_pc = "input"
    /\ np_clean' = clean_path(np_in)
    /\ np_pc' = "cleaned"
    /\ UNCHANGED <<routes, nops, last, rt, rt_last, np_in, np_dirs, np_out>>

do_to_directories ==
    /\ np_pc = "cleaned"
    /\ np_dirs' = path_to_directories(np_clean)
    /\ np_pc' = "split"
    /\ UNCHANGED <<routes, nops, last, rt, rt_last, np_in, np_clean, np_out>>

do_to_path ==
    /\ np_pc = "split"
    /\ np_out' = directories_to_path(np_dirs)
    /\ np_pc' = "joined"
    /\ UNCHANGED <<routes, nops, last, rt, rt_last, np_in, np_clean, np_dirs>>

NextPath == do_clean \/ do_to_directories \/ do_to_path

SpecPath == InitPath /\ [][NextPath]_vars

\* ------------------------------------------------------------------ claims
RegistrationOps == {"add_route", "add_websocket_route"}

\* the leaf routes below router r, each with the concatenation of the
\* prefixes of the mounts above it
RECURSIVE Leaves(_, _, _, _)
Leaves(rts, r, prefix, n) ==
    { [uid |-> rts[r][i].route.uid, prefix |-> prefix, route |-> rts[r][i].route,
       full |-> prefix \o rts[r][i].route.path] :
        i \in {j \in 1..Len(rts[r]) : rts[r][j].isRoute} }
    \cup (IF n = 0 THEN {}
          ELSE UNION { Leaves(rts, rts[r][i].router, prefix \o rts[r][i].key, n - 1) :
                       i \in {j \in 1..Len(rts[r]) : ~rts[r][j].isRoute} })

TreeLeaves(rts, r) == Leaves(rts, r, <<>>, Cardinality(RouterIds))

UpperTokens == {HTTP_METHODS[i] : i \in 1..Len(HTTP_METHODS)}

NoEmptySegment(p) == \A i \in 1..(Len(p) - 1) : ~(p[i] = "/" /\ p[i + 1] = "/")

Canonical(p) == directories_to_path(path_to_directories(p)) = p

\* C1: a registration call whose cleaned path is already in paths() fails
\* with the assertion and changes no table, whatever the spelling; a call
\* that succeeds stores the new Route under the cleaned path.
C1_DuplicateRejected ==
    [][ (last'.op \in RegistrationOps /\ ~paths(routes, last'.self).err) =>
        LET self == last'.self
            cleaned == clean_path(last'.path)
        IN  /\ InSeq(cleaned, paths(routes, self).paths) =>
                 (last'.outcome = "AssertionError" /\ routes' = routes)
            /\ last'.outcome # "ok" => routes' = routes
            /\ last'.outcome = "ok" =>
                 \E i \in 1..Len(routes'[self]) :
                     /\ routes'[self][i].key = cleaned
                     /\ routes'[self][i].isRoute
                     /\ routes'[self][i].route.uid = nops' ]_vars

\* C2: after a successful registration on a router mounted below the root,
\* no two leaf routes of the tree have the same full path.
C2_FullPathsUnique ==
    (last.op \in RegistrationOps /\ last.outcome = "ok" /\ last.self # Root
        /\ last.self \in Subtree(routes, Root)) =>
    \A x, y \in TreeLeaves(routes, Root) : x.uid # y.uid => x.full # y.full

\* C3: mount fails exactly when the cleaned prefix is already a direct key
\* of the router's table, whatever the spelling; otherwise it stores the
\* sub-router under the cleaned prefix.
C3_MountDirectKey ==
    [][ last'.op = "mount" =>
        LET self == last'.self
            cleaned == clean_path(last'.path)
        IN  /\ (cleaned \in Keys(routes[self])) <=> (last'.outcome = "AssertionError")
            /\ last'.outcome = "AssertionError" => routes' = routes
            /\ last'.outcome = "ok" =>
                 \E i \in 1..Len(routes'[self]) :
                     /\ routes'[self][i].key = cleaned
                     /\ ~routes'[self][i].isRoute
                     /\ routes'[self][i].router = last'.router ]_vars

\* the route C4 promises for a request on router r: the first entry, in
\* registration order, that is an HTTP or websocket route below at least one
\* mount whose template matches what is left of the request after the mount
\* prefixes; nothing is promised (uid 0) once an earlier entry may match: a
\* static route, a matching route of the root, or a mount that holds a route
Promise(route, named) == [uid |-> route.uid, named |-> named]

NoPromise == [uid |-> 0, named |-> <<>>]

RECURSIVE Promised(_, _, _, _, _)
Promised(rts, r, req, i, depth) ==
    IF i > Len(rts[r]) THEN NoPromise
    ELSE LET e == rts[r][i] IN
         IF e.isRoute
         THEN IF e.route.route_type = STATIC THEN NoPromise
              ELSE IF parse(e.route.path, req).ok
              THEN (IF depth >= 1 THEN Promise(e.route, parse(e.route.path, req).named)
                    ELSE NoPromise)
              ELSE Promised(rts, r, req, i + 1, depth)
         ELSE LET k == Len(e.key)
                  under == /\ Len(req) > k
                           /\ SubSeq(req, 1, k) = e.key
                           /\ req[k + 1] = "/"
                  q == SubSeq(req, k + 1, Len(req))
                  sub == IF under /\ Canonical(q)
                         THEN Promised(rts, e.router, q, 1, depth + 1)
                         ELSE NoPromise
              IN  IF sub.uid # 0 THEN sub
                  ELSE IF TreeLeaves(rts, e.router) = {}
                  THEN Promised(rts, r, req, i + 1, depth)
                  ELSE NoPromise

\* C4: a request made of the mount prefixes followed by a path that matches
\* the template of an HTTP route of the mounted router resolves to that
\* route with the parameters of that match, when no earlier entry matches.
C4_NestedMountResolves ==
    last.op = "get_route" =>
    LET want == Promised(routes, Root, last.path, 1, 0)
    IN  want.uid # 0 =>
            /\ last.outcome = "route"
            /\ last.route.uid = want.uid
            /\ last.kwargs.named = want.named

\* a request no leaf route of the tree accounts for: the tree holds no
\* static route, and the request matches the full path of no leaf route,
\* with or without a trailing slash
Unknown(rts, req) ==
    \A x \in TreeLeaves(rts, Root) :
        /\ x.route.route_type # STATIC
        /\ ~parse(x.full, req).ok
        /\ ~parse(clean_path(x.full), req).ok
        /\ ~parse(x.full, clean_path(req)).ok

\* C5: resolving an unknown path returns no route.
C5_UnknownPathNoRoute ==
    (last.op = "get_route" /\ Unknown(routes, last.path)) => last.outcome # "route"

\* C6: a returned static route comes with router_path equal to the
\* concatenation of the prefixes of the mounts descended through to reach it
\* (no prefix at all for a static route of the root).
C6_StaticRouterPath ==
    (last.op = "get_route" /\ last.outcome = "route" /\ last.route.route_type = STATIC) =>
    \A x \in TreeLeaves(routes, Root) :
        x.uid = last.route.uid =>
            /\ last.kwargs.kind = "router_path"
            /\ IF x.prefix = <<>> THEN last.kwargs.router_path \in {None, <<>>}
               ELSE last.kwargs.router_path = x.prefix

\* C7: every Route and every mounted Router of a table is still there,
\* the same object under the same key, after every step.
C7_NothingRemoved ==
    [][ \A r \in RouterIds : \A i \in 1..Len(routes[r]) :
          \E j \in 1..Len(routes'[r]) :
              /\ routes'[r][j].key = routes[r][i].key
              /\ routes'[r][j].isRoute = routes[r][i].isRoute
              /\ routes'[r][j].route.uid = routes[r][i].route.uid
              /\ routes'[r][j].router = routes[r][i].router ]_vars

\* C8: the methods of a Route are never empty and all upper-case, after
\* construction and after every assignment.
C8_MethodsNonEmptyUpper ==
    rt # NoRoute =>
        /\ rt.methods # <<>>
        /\ \A i \in 1..Len(rt.methods) : rt.methods[i] \in UpperTokens

\* C9 as stated: the round trip gives back the cleaned path for every
\* non-empty path string.
C9_RoundTripEveryPath ==
    (np_pc = "joined" /\ np_in # <<>>) => np_out = np_clean

\* C9 as amended: the round trip gives back the cleaned path for every
\* non-empty path string that has no two slashes in a row.
C9_RoundTripNoEmptySegment ==
    (np_pc = "joined" /\ np_in # <<>> /\ NoEmptySegment(np_in)) => np_out = np_clean

\* a path that cleaning changed at both ends went through the round trip
C9_Witness ==
    /\ np_pc = "joined"
    /\ np_in = <<"a", "/">>
    /\ np_clean = <<"/", "a">>
    /\ np_dirs = << <<"/", "a">> >>
    /\ np_out = np_clean

\* C10: no tree walk runs into the recursion limit: get_route returns a
\* match or the no-match pair, and paths() returns its list.
C10_WalksTerminate ==
    last.op \in {"get_route", "paths"} => last.outcome # "RecursionError"

\* no router mounted below the root has an empty table
NoEmptyMount ==
    \A r \in Subtree(routes, Root) : r # Root => routes[r] # <<>>

\* the promise of C4 is kept in every tree without an empty mounted router:
\* the empty-table fallback of C10 is all that breaks it
NestedMountResolvesIfNoEmptyMount == NoEmptyMount => C4_NestedMountResolves

\* a promised route below a second mount of the root was returned with a
\* named parameter
NestedMountResolved ==
    /\ last.op = "get_route"
    /\ Promised(routes, Root, last.path, 1, 0).uid # 0
    /\ last.outcome = "route"
    /\ last.kwargs.named # <<>>
    /\ \E i \in 2..Len(routes[Root]) : ~routes[Root][i].isRoute

====
